---- MODULE Spec2Model ----
(***************************************************************************)
(* One call of Application._predict_segmentation                           *)
(* (deepcell/applications/application.py): validate, _resize_input,        *)
(* _preprocess, _tile_input, model.predict, _untile_output, _postprocess,  *)
(* _resize_output.                                                         *)
(*                                                                         *)
(* An array is a record [kind, shape, xs, ys].  shape is the numpy shape   *)
(* tuple.  For a rank-4 array xs and ys say, for every row and column,     *)
(* which row / column of the array handed to _tile_input the pixels come   *)
(* from, so that padding and cropping act on the pixels and not only on    *)
(* the shape.  A python list of arrays is [kind |-> "list", items].        *)
(* Resolutions (mpp) are counted in units of 0.1625 micron, in which the   *)
(* default model_mpp 0.65 is 4 and the quotients used here are exact in    *)
(* double precision.                                                       *)
(***************************************************************************)
EXTENDS Integers, Sequences, FiniteSets, TLC

\* ---- bounds of the model ----
MaxDim == 5        \* input heights and widths range over 1..MaxDim
ModelH == 3        \* model_image_shape[0]
ModelW == 3        \* model_image_shape[1]
MaxHeads == 2      \* model.predict returns at most this many output heads
MaxChannels == 2   \* input channel counts range over 1..MaxChannels

\* ---- configuration of the Application ----
ModelChannels == 1
ModelMpp == 4
model_image_shape == <<ModelH, ModelW, ModelChannels>>
model_mpp == ModelMpp
required_rank == Len(model_image_shape) + 1
required_channels == model_image_shape[Len(model_image_shape)]

\* ---- python values ----
NoneVal == [kind |-> "none"]
Mpp(u) == [kind |-> "float", units |-> u]
Ramp(n) == [i \in 1..n |-> i]
Rank(a) == Len(a.shape)
Last(s) == s[Len(s)]

\* an array of the given shape whose pixels are its own
MkArr(shape) ==
    [kind |-> "array", shape |-> shape,
     xs |-> IF Len(shape) = 4 THEN Ramp(shape[2]) ELSE << >>,
     ys |-> IF Len(shape) = 4 THEN Ramp(shape[3]) ELSE << >>]

\* shape[1:-1] of a python tuple
Inner(shape) == SubSeq(shape, 2, Len(shape) - 1)
\* shape[1:] of a python tuple
Tail1(shape) == SubSeq(shape, 2, Len(shape))

Max(a, b) == IF a > b THEN a ELSE b
Min(a, b) == IF a < b THEN a ELSE b
Abs(a) == IF a < 0 THEN 0 - a ELSE a

\* seq[start:-negstop] of python: a negated 0 is 0, so the stop is 0 then
PySlice(seq, start, negstop) ==
    LET n == Len(seq)
        lo == Min(start, n)
        hi == IF negstop = 0 THEN 0 ELSE Max(n - negstop, 0)
    IN  IF hi <= lo THEN << >> ELSE SubSeq(seq, lo + 1, hi)

\* ---- collaborators (deepcell_toolbox.utils, numpy, the model) ----

\* resize(image, new_shape, data_format='channels_last'): the spatial axes
\* take the target size, the pixels are resampled
resize(image, target) ==
    IF Rank(image) = 2 THEN MkArr(target)
    ELSE MkArr([i \in 1..Rank(image) |->
                  IF i = 2 THEN target[1]
                  ELSE IF i = 3 THEN target[2] ELSE image.shape[i]])

\* position read by numpy's 'reflect' mode for index i (1-based, possibly
\* outside 1..n) of an axis of length n >= 1
Reflect(i, n) ==
    IF n = 1 THEN 1
    ELSE LET p == 2 * (n - 1)
             j == (i - 1) % p
         IN  IF j < n THEN j + 1 ELSE p - j + 1

\* np.pad(axis, (before, after), 'reflect') along one axis
NpPadReflect(seq, pad) ==
    [k \in 1..(Len(seq) + pad[1] + pad[2]) |-> seq[Reflect(k - pad[1], Len(seq))]]

\* np.pad refuses to extend an empty axis in 'reflect' mode
NpPadRaises(seq, pad) == Len(seq) = 0 /\ pad # <<0, 0>>

CeilDiv(a, b) == (a + b - 1) \div b

\* tile_image(image, model_input_shape): a batch of full-size tiles that
\* covers the image, and the geometry to undo it
tile_image(image) ==
    [tiles |-> MkArr(<<image.shape[1] * CeilDiv(image.shape[2], ModelH)
                                      * CeilDiv(image.shape[3], ModelW),
                       ModelH, ModelW, image.shape[4]>>),
     info  |-> [padding |-> FALSE, x_pad |-> <<0, 0>>, y_pad |-> <<0, 0>>,
                image_shape |-> image.shape]]

\* untile_image(im, tiles_info, model_input_shape): the full extent again
untile_image(im, info) ==
    MkArr(<<info.image_shape[1], info.image_shape[2], info.image_shape[3],
            im.shape[4]>>)

\* head k of model.predict(tiles): one output per tile, k channels
ModelHead(tls, k) == [tls EXCEPT !.shape = [tls.shape EXCEPT ![4] = k]]

\* what model.predict can return: one array, or a list of 1..MaxHeads arrays
ModelOutputs(tls) ==
    {ModelHead(tls, 1)} \cup
    {[kind |-> "list", items |-> [k \in 1..n |-> ModelHead(tls, k)]] :
        n \in 1..MaxHeads}

\* what a postprocessing_fn can return for its input: a label array of rank
\* 2, 3 or 4 over the spatial extent of the (first) array it is given
PostFnResults(img) ==
    LET a == IF img.kind = "list" THEN img.items[1] ELSE img
        s == a.shape
    IN  {MkArr(<<s[2], s[3]>>), MkArr(<<s[1], s[2], s[3]>>),
         MkArr(<<s[1], s[2], s[3], 1>>)}

\* what a preprocessing_fn can return: an array of the same shape, or one
\* that lost its channel axis
PreFnResults(img) == {MkArr(img.shape), MkArr(SubSeq(img.shape, 1, Rank(img) - 1))}

VARIABLES
    image,              \* the argument of the call
    image_mpp,          \* None or a resolution
    preprocessing_fn,   \* TRUE when a function is configured
    postprocessing_fn,  \* TRUE when a function is configured
    pc,                 \* the stage to run next, "done" or "error"
    err,                \* the exception the call ended in
    new_shape,          \* target handed to resize by _resize_input
    resized_image,      \* result of _resize_input
    pre_image,          \* result of _preprocess: the input of _tile_input
    tiles, tiles_info,  \* result of _tile_input
    output_tiles,       \* result of model.predict
    output_images,      \* result of _untile_output
    post_raw,           \* what postprocessing_fn returned
    label_image,        \* result of _postprocess
    result,             \* what the call returned
    calls,              \* invocations of the collaborators and hooks
    trace               \* stages entered, in order

vars == <<image, image_mpp, preprocessing_fn, postprocessing_fn, pc, err,
          new_shape, resized_image, pre_image, tiles, tiles_info,
          output_tiles, output_images, post_raw, label_image, result,
          calls, trace>>

\* ---- the inputs ----
ImageMpps == {NoneVal} \cup {Mpp(u) : u \in {2, 3, 4, 6, 8}}

InputShapes ==
    {<<1, h, w, c>> : h \in 1..MaxDim, w \in 1..MaxDim, c \in 1..MaxChannels}
    \cup {<<h, w, c>> : h \in 1..MaxDim, w \in 1..MaxDim, c \in 1..MaxChannels}

NoCalls == [resize |-> 0, resize_labeled |-> 0, preprocessing_fn |-> 0,
            tile_image |-> 0, predict |-> 0, untile_image |-> 0,
            postprocessing_fn |-> 0]

Init ==
    /\ image \in {MkArr(s) : s \in InputShapes}
    /\ image_mpp \in ImageMpps
    /\ preprocessing_fn \in BOOLEAN
    /\ postprocessing_fn \in BOOLEAN
    /\ pc = "validate"
    /\ err = "None"
    /\ new_shape = NoneVal
    /\ resized_image = NoneVal
    /\ pre_image = NoneVal
    /\ tiles = NoneVal
    /\ tiles_info = NoneVal
    /\ output_tiles = NoneVal
    /\ output_images = NoneVal
    /\ post_raw = NoneVal
    /\ label_image = NoneVal
    /\ result = NoneVal
    /\ calls = NoCalls
    /\ trace = << >>

\* ---- control ----
StageOrder == <<"validate", "resize_input", "preprocess", "tile", "predict",
                "untile", "postprocess", "resize_output">>

StageAfter(stage) ==
    LET i == CHOOSE k \in 1..Len(StageOrder) : StageOrder[k] = stage
    IN  IF i = Len(StageOrder) THEN "done" ELSE StageOrder[i + 1]

\* an exception is caught and the call returns without a result
NextPcSwallow(stage, raised) == IF raised THEN "done" ELSE StageAfter(stage)

\* where control goes after a stage: an exception leaves the call
NextPc(stage, raised) == IF raised THEN "error" ELSE StageAfter(stage)

Enter(stage) == pc = stage /\ trace' = Append(trace, stage)

Raise(stage, e) == pc' = NextPc(stage, TRUE) /\ err' = e

Pass(stage) == pc' = NextPc(stage, FALSE) /\ err' = err

Called(c) == calls' = [calls EXCEPT ![c] = @ + 1]

\* ---- validation ----
\* only the rank is checked
ShapeErrorRankOnly(img) == Rank(img) # required_rank

\* the two checks at the head of _predict_segmentation
ShapeError(img) ==
    \/ Rank(img) # required_rank
    \/ Last(img.shape) # required_channels

Validate ==
    /\ Enter("validate")
    /\ IF ShapeError(image)
       THEN Raise("validate", "ValueError")
       ELSE Pass("validate")
    /\ UNCHANGED <<image, image_mpp, preprocessing_fn, postprocessing_fn,
                   new_shape, resized_image, pre_image, tiles, tiles_info,
                   output_tiles, output_images, post_raw, label_image,
                   result, calls>>

\* ---- _resize_input ----
\* resize whenever a resolution is given
NeedsResizeAnyMpp(mpp) == mpp # NoneVal

\* image_mpp not in {None, self.model_mpp}
NeedsResize(mpp) == mpp \notin {NoneVal, Mpp(model_mpp)}

\* python 3 round(num / den) for num >= 0, den > 0: ties go to the even side
PyRound(num, den) ==
    LET q == num \div den
        r == num % den
    IN  IF 2 * r < den THEN q
        ELSE IF 2 * r > den THEN q + 1
        ELSE IF q % 2 = 0 THEN q ELSE q + 1

\* the dimension is rounded to the nearest integer
ScaledDimRound(dim, mpp) == PyRound(dim * mpp.units, model_mpp)

\* int(dim * (image_mpp / self.model_mpp))
ScaledDim(dim, mpp) == (dim * mpp.units) \div model_mpp

ResizeInput ==
    /\ Enter("resize_input")
    /\ IF NeedsResize(image_mpp)
       THEN /\ new_shape' = <<ScaledDim(image.shape[2], image_mpp),
                              ScaledDim(image.shape[3], image_mpp)>>
            /\ Called("resize")
            /\ \/ /\ resized_image' = resize(image, new_shape')
                  /\ Pass("resize_input")
               \/ /\ resized_image' = resized_image
                  /\ Raise("resize_input", "CollaboratorError")
       ELSE /\ resized_image' = image
            /\ Pass("resize_input")
            /\ UNCHANGED <<new_shape, calls>>
    /\ UNCHANGED <<image, image_mpp, preprocessing_fn, postprocessing_fn,
                   pre_image, tiles, tiles_info, output_tiles, output_images,
                   post_raw, label_image, result>>

\* ---- _preprocess ----
Preprocess ==
    /\ Enter("preprocess")
    /\ IF preprocessing_fn
       THEN /\ Called("preprocessing_fn")
            /\ \/ /\ pre_image' \in PreFnResults(resized_image)
                  /\ Pass("preprocess")
               \/ /\ pre_image' = pre_image
                  /\ Raise("preprocess", "CollaboratorError")
       ELSE /\ pre_image' = resized_image
            /\ Pass("preprocess")
            /\ UNCHANGED calls
    /\ UNCHANGED <<image, image_mpp, preprocessing_fn, postprocessing_fn,
                   new_shape, resized_image, tiles, tiles_info, output_tiles,
                   output_images, post_raw, label_image, result>>

\* ---- _tile_input ----
x_diff(img) == img.shape[2] - model_image_shape[1]
y_diff(img) == img.shape[3] - model_image_shape[2]

\* the odd unit goes before the image
PadPairExtraBefore(diff) ==
    IF diff % 2 = 1 THEN <<diff \div 2 + 1, diff \div 2>>
    ELSE <<diff \div 2, diff \div 2>>

\* (diff // 2, diff // 2 + 1) if diff % 2 else (diff // 2, diff // 2)
PadPair(diff) ==
    IF diff % 2 = 1 THEN <<diff \div 2, diff \div 2 + 1>>
    ELSE <<diff \div 2, diff \div 2>>

\* the input is smaller than the model image size
TakesPadding(img) == x_diff(img) < 0 \/ y_diff(img) < 0

x_pad(img) == PadPair(Abs(x_diff(img)))
y_pad(img) == PadPair(Abs(y_diff(img)))

\* np.pad(image, [(0, 0), x_pad, y_pad, (0, 0)], 'reflect')
PaddedTiles(img) ==
    LET px == NpPadReflect(img.xs, x_pad(img))
        py == NpPadReflect(img.ys, y_pad(img))
    IN  [kind |-> "array",
         shape |-> <<img.shape[1], Len(px), Len(py), img.shape[4]>>,
         xs |-> px, ys |-> py]

PaddedInfo(img) ==
    [padding |-> TRUE, x_pad |-> x_pad(img), y_pad |-> y_pad(img),
     image_shape |-> << >>]

TileInput ==
    /\ Enter("tile")
    /\ IF Rank(pre_image) # 4
       THEN /\ Raise("tile", "ValueError")
            /\ UNCHANGED <<tiles, tiles_info, calls>>
       ELSE IF TakesPadding(pre_image)
       THEN IF \/ NpPadRaises(pre_image.xs, x_pad(pre_image))
               \/ NpPadRaises(pre_image.ys, y_pad(pre_image))
            THEN /\ Raise("tile", "ValueError")
                 /\ UNCHANGED <<tiles, tiles_info, calls>>
            ELSE /\ tiles' = PaddedTiles(pre_image)
                 /\ tiles_info' = PaddedInfo(pre_image)
                 /\ Pass("tile")
                 /\ UNCHANGED calls
       ELSE /\ Called("tile_image")
            /\ \/ /\ tiles' = tile_image(pre_image).tiles
                  /\ tiles_info' = tile_image(pre_image).info
                  /\ Pass("tile")
               \/ /\ Raise("tile", "CollaboratorError")
                  /\ UNCHANGED <<tiles, tiles_info>>
    /\ UNCHANGED <<image, image_mpp, preprocessing_fn, postprocessing_fn,
                   new_shape, resized_image, pre_image, output_tiles,
                   output_images, post_raw, label_image, result>>

\* ---- self.model.predict(tiles, batch_size=batch_size) ----
ModelPredict ==
    /\ Enter("predict")
    /\ Called("predict")
    /\ \/ /\ output_tiles' \in ModelOutputs(tiles)
          /\ Pass("predict")
       \/ /\ output_tiles' = output_tiles
          /\ Raise("predict", "CollaboratorError")
    /\ UNCHANGED <<image, image_mpp, preprocessing_fn, postprocessing_fn,
                   new_shape, resized_image, pre_image, tiles, tiles_info,
                   output_images, post_raw, label_image, result>>

\* ---- _untile_output ----
\* im[:, x_pad[0]:-x_pad[1], y_pad[0]:-y_pad[1], :]
Crop(im, info) ==
    LET cx == PySlice(im.xs, info.x_pad[1], info.x_pad[2])
        cy == PySlice(im.ys, info.y_pad[1], info.y_pad[2])
    IN  [kind |-> "array",
         shape |-> <<im.shape[1], Len(cx), Len(cy), im.shape[4]>>,
         xs |-> cx, ys |-> cy]

\* _process, in the variant tiles_info.get('padding', False) selects
Process(im, info) ==
    IF info.padding THEN Crop(im, info) ELSE untile_image(im, info)

\* applied to the array, or to each array of the list
Untile(out, info) ==
    IF out.kind = "list"
    THEN [kind |-> "list",
          items |-> [k \in 1..Len(out.items) |-> Process(out.items[k], info)]]
    ELSE Process(out, info)

HeadCount(out) == IF out.kind = "list" THEN Len(out.items) ELSE 1

UntileOutput ==
    /\ Enter("untile")
    /\ IF tiles_info.padding
       THEN /\ output_images' = Untile(output_tiles, tiles_info)
            /\ Pass("untile")
            /\ UNCHANGED calls
       ELSE /\ calls' = [calls EXCEPT !.untile_image = @ + HeadCount(output_tiles)]
            /\ \/ /\ output_images' = Untile(output_tiles, tiles_info)
                  /\ Pass("untile")
               \/ /\ output_images' = output_images
                  /\ Raise("untile", "CollaboratorError")
    /\ UNCHANGED <<image, image_mpp, preprocessing_fn, postprocessing_fn,
                   new_shape, resized_image, pre_image, tiles, tiles_info,
                   output_tiles, post_raw, label_image, result>>

\* ---- _postprocess ----
\* np.expand_dims(image, axis=-1)
ExpandDims(a) == MkArr(Append(a.shape, 1))

\* the channel axis is added to a result that already has required_rank
PostprocessExpandAtRank(img, fn, fn_result) ==
    IF fn
    THEN IF Rank(fn_result) = required_rank
         THEN ExpandDims(fn_result) ELSE fn_result
    ELSE IF img.kind = "list" /\ Len(img.items) = 1
         THEN img.items[1] ELSE img

\* fn_result is what self.postprocessing_fn(image) returned, when configured
Postprocess(img, fn, fn_result) ==
    IF fn
    THEN IF Rank(fn_result) = required_rank - 1
         THEN ExpandDims(fn_result) ELSE fn_result
    ELSE IF img.kind = "list" /\ Len(img.items) = 1
         THEN img.items[1] ELSE img

PostprocessStage ==
    /\ Enter("postprocess")
    /\ IF postprocessing_fn
       THEN /\ Called("postprocessing_fn")
            /\ \/ /\ post_raw' \in PostFnResults(output_images)
                  /\ label_image' = Postprocess(output_images, TRUE, post_raw')
                  /\ Pass("postprocess")
               \/ /\ Raise("postprocess", "CollaboratorError")
                  /\ UNCHANGED <<post_raw, label_image>>
       ELSE /\ label_image' = Postprocess(output_images, FALSE, NoneVal)
            /\ Pass("postprocess")
            /\ UNCHANGED <<post_raw, calls>>
    /\ UNCHANGED <<image, image_mpp, preprocessing_fn, postprocessing_fn,
                   new_shape, resized_image, pre_image, tiles, tiles_info,
                   output_tiles, output_images, result>>

\* ---- _resize_output ----
\* a rank-4 image is compared on shape[1:], channel axis included
SameSpatialTail(img, original_shape) ==
    IF Rank(img) = 4 \/ Rank(img) = 3
    THEN Tail1(img.shape) = Inner(original_shape)
    ELSE img.shape = Inner(original_shape)

\* same: the x, y comparison chosen by the rank of the image
SameSpatial(img, original_shape) ==
    IF Rank(img) = 4 THEN Inner(img.shape) = Inner(original_shape)
    ELSE IF Rank(img) = 3 THEN Tail1(img.shape) = Inner(original_shape)
    ELSE img.shape = Inner(original_shape)

ResizeOutput ==
    /\ Enter("resize_output")
    /\ IF label_image.kind = "list"
       THEN \* a list has no attribute shape
            /\ Raise("resize_output", "AttributeError")
            /\ UNCHANGED <<result, calls>>
       ELSE IF SameSpatial(label_image, image.shape)
       THEN /\ result' = label_image
            /\ Pass("resize_output")
            /\ UNCHANGED calls
       ELSE /\ Called("resize_labeled")
            /\ \/ /\ result' = resize(label_image, Inner(image.shape))
                  /\ Pass("resize_output")
               \/ /\ result' = result
                  /\ Raise("resize_output", "CollaboratorError")
    /\ UNCHANGED <<image, image_mpp, preprocessing_fn, postprocessing_fn,
                   new_shape, resized_image, pre_image, tiles, tiles_info,
                   output_tiles, output_images, post_raw, label_image>>

Next ==
    \/ Validate
    \/ ResizeInput
    \/ Preprocess
    \/ TileInput
    \/ ModelPredict
    \/ UntileOutput
    \/ PostprocessStage
    \/ ResizeOutput

Spec == Init /\ [][Next]_vars

\* ---- properties ----
IsPrefix(s, t) == Len(s) <= Len(t) /\ SubSeq(t, 1, Len(s)) = s
Heads(out) == IF out.kind = "list" THEN out.items ELSE <<out>>
Spatial(a) == <<a.shape[2], a.shape[3]>>
Padded == tiles_info # NoneVal /\ tiles_info.padding
Untiled == output_images # NoneVal
InvalidInput ==
    Rank(image) # required_rank \/ Last(image.shape) # required_channels

\* C1: an input of the wrong rank or the wrong channel count ends in a
\* ValueError, and neither the resize collaborator, the preprocessing hook,
\* the tiler, model.predict nor the postprocessing hook has been invoked.
C1_ValidationGate ==
    InvalidInput =>
        /\ pc \in {"validate", "error"}
        /\ pc = "error" => err = "ValueError"
        /\ calls = NoCalls
        /\ \A i \in 1..Len(trace) : trace[i] = "validate"
        /\ result = NoneVal

C1_Witness ==
    /\ pc = "error"
    /\ err = "ValueError"
    /\ Rank(image) = required_rank
    /\ Last(image.shape) # required_channels

\* C2: in the Padded branch, _untile_output gives back exactly the height,
\* the width and the pixels of the image that _tile_input was given, also
\* when one of the two axes needs no padding.
C2_PadCropRoundTrip ==
    (Untiled /\ Padded) =>
        \A k \in 1..Len(Heads(output_images)) :
            LET o == Heads(output_images)[k]
            IN  /\ Spatial(o) = Spatial(pre_image)
                /\ o.xs = pre_image.xs
                /\ o.ys = pre_image.ys

\* C3: whichever branch _tile_input takes, the batch handed to model.predict
\* has the height and width of ModelShape.
C3_TilesHaveModelShape ==
    calls.predict >= 1 => Spatial(tiles) = <<ModelH, ModelW>>

\* C4: in the Padded branch, for an axis in which the image is smaller than
\* ModelShape by d, the pad pair sums to d, its two parts differ by 0 or 1,
\* and the after part is the larger one exactly when d is odd; a difference
\* of 28 (100 against 128) gives (14, 14).
PadSplits(pad, d) ==
    /\ pad[1] + pad[2] = d
    /\ pad[2] - pad[1] \in {0, 1}
    /\ (pad[2] = pad[1] + 1) <=> (d % 2 = 1)

C4_PadSplit ==
    /\ Padded =>
        /\ pre_image.shape[2] < ModelH =>
              PadSplits(tiles_info.x_pad, ModelH - pre_image.shape[2])
        /\ pre_image.shape[3] < ModelW =>
              PadSplits(tiles_info.y_pad, ModelW - pre_image.shape[3])
    /\ PadPair(128 - 100) = <<14, 14>>

C4_Witness ==
    /\ Padded
    /\ pre_image.shape[2] < ModelH
    /\ (ModelH - pre_image.shape[2]) % 2 = 1
    /\ pre_image.shape[3] < ModelW
    /\ (ModelW - pre_image.shape[3]) % 2 = 0

\* C5, as claimed: when _resize_input scales, the target height and width
\* handed to resize are round(original_dim * scale).
C5_RoundedTarget ==
    calls.resize = 1 =>
        new_shape = <<PyRound(image.shape[2] * image_mpp.units, model_mpp),
                      PyRound(image.shape[3] * image_mpp.units, model_mpp)>>

\* C5, amended: when _resize_input scales, each target dimension is the
\* product original_dim * scale truncated to an integer: the largest integer
\* t with t <= original_dim * image_mpp / model_mpp.
Truncates(t, dim, mpp) ==
    /\ t * model_mpp <= dim * mpp.units
    /\ dim * mpp.units < (t + 1) * model_mpp

C5_TruncatedTarget ==
    calls.resize = 1 =>
        /\ Truncates(new_shape[1], image.shape[2], image_mpp)
        /\ Truncates(new_shape[2], image.shape[3], image_mpp)

C5_Witness ==
    /\ calls.resize = 1
    /\ new_shape[1] # PyRound(image.shape[2] * image_mpp.units, model_mpp)
    /\ resized_image # NoneVal

\* C6: once model.predict has returned, be it one array or a list of any
\* length, with or without a postprocessing function, the call raises no
\* error of its own: it can only end in an error a collaborator raised.
C6_ListCarriedThrough ==
    (output_tiles # NoneVal /\ pc = "error") => err = "CollaboratorError"

\* C7: a call that returns a rank-3 or rank-4 array returns it with the
\* height and width of the original input, and the label-preserving resize
\* has been invoked exactly when the postprocessed output's height and width
\* differ from the original's.
C7_OriginalExtent ==
    (pc = "done" /\ Rank(result) \in {3, 4}) =>
        /\ Spatial(result) = Spatial(image)
        /\ (calls.resize_labeled = 1) <=> (Spatial(label_image) # Spatial(image))
        /\ calls.resize_labeled <= 1

C7_Witness ==
    /\ pc = "done"
    /\ Rank(result) = 4
    /\ calls.resize = 1
    /\ Padded
    /\ calls.resize_labeled = 1
    /\ Spatial(result) = Spatial(image)

\* C8: _resize_input returns the very image it was given, without calling
\* resize, when image_mpp is None or equal to model_mpp, and calls resize
\* exactly once in every other case.
C8_ResizeOnlyOnMismatch ==
    IF Len(trace) < 2 THEN calls.resize = 0
    ELSE IF image_mpp = NoneVal \/ image_mpp = Mpp(model_mpp)
         THEN calls.resize = 0 /\ resized_image = image
         ELSE calls.resize = 1

C8_Witness ==
    /\ Len(trace) >= 2
    /\ image_mpp = Mpp(model_mpp)
    /\ resized_image = image
    /\ calls.resize = 0

\* C9: the stages run in the order validate, normalize resolution,
\* preprocess, tile, model.predict, untile, postprocess, restore resolution,
\* each at most once; model.predict is invoked exactly once in a call that
\* got past tiling and not at all otherwise; after a stage has raised no
\* stage runs and no result is returned.
ClaimedOrder == <<"validate", "resize_input", "preprocess", "tile",
                  "predict", "untile", "postprocess", "resize_output">>

C9_StageOrder ==
    /\ IsPrefix(trace, ClaimedOrder)
    /\ calls.predict = IF Len(trace) >= 5 THEN 1 ELSE 0
    /\ pc = "done" => trace = ClaimedOrder /\ result # NoneVal /\ err = "None"
    /\ pc = "error" => result = NoneVal /\ err # "None" /\ ~ENABLED Next
    /\ pc \notin {"done", "error"} =>
          /\ pc = ClaimedOrder[Len(trace) + 1]
          /\ err = "None"
          /\ result = NoneVal

C9_Witness ==
    /\ pc = "error"
    /\ err = "CollaboratorError"
    /\ Len(trace) = 5
    /\ calls.predict = 1
    /\ result = NoneVal

\* C10: with a postprocessing function, a result of rank required_rank - 1
\* comes back with rank required_rank and a trailing axis of size 1, and a
\* result of any other rank comes back as it is; without one, a list of one
\* array comes back as that array and anything else comes back unchanged.
C10_PostprocessShape ==
    label_image # NoneVal =>
        IF postprocessing_fn
        THEN IF Rank(post_raw) = required_rank - 1
             THEN /\ Rank(label_image) = required_rank
                  /\ Last(label_image.shape) = 1
                  /\ SubSeq(label_image.shape, 1, Rank(post_raw)) = post_raw.shape
             ELSE label_image = post_raw
        ELSE IF output_images.kind = "list" /\ Len(output_images.items) = 1
             THEN label_image = output_images.items[1]
             ELSE label_image = output_images

C10_Witness ==
    /\ label_image # NoneVal
    /\ postprocessing_fn
    /\ Rank(post_raw) = required_rank - 1
    /\ Rank(label_image) = required_rank
====
